---- MODULE Spec2Model ----
(***************************************************************************)
(* CleanCommute: the emissions estimator (emissions.py) and the            *)
(* auto-compare request handler that calls it (app.py).                    *)
(*                                                                         *)
(* Numbers are fixed point.  A distance is counted in thousandths of a     *)
(* kilometre, an emission factor in thousandths of kg/km and an emission   *)
(* mass in ten-thousandths of a kilogram (the four decimals that           *)
(* round(..., 4) keeps).  Products and quotients are exact rationals and   *)
(* round() is round-to-nearest on the exact value.  A value that lies      *)
(* exactly halfway between two decimals has no exact binary float, so the  *)
(* float the program rounds lies just above or just below the tie: the     *)
(* direction is the variable tie, either one for a whole behaviour.        *)
(*                                                                         *)
(* A Python value is a record [t, n, s]: t is its type, n its number       *)
(* (whole for an int, thousandths for a float), s its characters.          *)
(***************************************************************************)
EXTENDS Integers, Sequences, FiniteSets, TLC

\* The direction in which round() resolves an exact half (see above)
VARIABLE tie

\* ------------------------------------------------------------------------
\* Bounds of the checked input space
\* ------------------------------------------------------------------------
MaxMilli == 6        \* distances 0.001 .. MaxMilli/1000 km, every step
MaxKm == 10          \* distances 1.0 .. MaxKm km, every whole kilometre
MaxPassengers == 4   \* integer passenger counts -1 .. MaxPassengers

\* ------------------------------------------------------------------------
\* Python values
\* ------------------------------------------------------------------------
PyNone == [t |-> "none", n |-> 0, s |-> << >>]
PyStr(s) == [t |-> "str", n |-> 0, s |-> s]
PyInt(n) == [t |-> "int", n |-> n, s |-> << >>]
PyFloat(n) == [t |-> "float", n |-> n, s |-> << >>]
PyNaN == [t |-> "nan", n |-> 0, s |-> << >>]

\* A float result: v in the unit of its field, or NaN.
Num(v) == [nan |-> FALSE, v |-> v]
NaN == [nan |-> TRUE, v |-> 0]

IsNumber(x) == x.t \in {"int", "float"}
\* the value of an int or a float in thousandths
Milli(x) == IF x.t = "int" THEN 1000 * x.n ELSE x.n

\* Python truthiness: None, "", 0 and 0.0 are false; NaN is true.
Truthy(x) ==
    CASE x.t = "none" -> FALSE
      [] x.t = "str" -> x.s # << >>
      [] x.t = "nan" -> TRUE
      [] OTHER -> x.n # 0

\* ------------------------------------------------------------------------
\* Strings: a string is a sequence of one-character strings
\* ------------------------------------------------------------------------
LowerAlpha == << "a", "b", "c", "d", "e", "g", "h", "i", "k", "l", "n", "p",
                 "r", "s", "t", "u", "w", "y" >>
UpperAlpha == << "A", "B", "C", "D", "E", "G", "H", "I", "K", "L", "N", "P",
                 "R", "S", "T", "U", "W", "Y" >>

\* str.lower() on one character: an upper-case letter maps to its lower-case
\* counterpart, every other character ("_", " ", lower-case letters) to itself.
LowerChar(c) ==
    IF \E i \in 1..Len(UpperAlpha) : UpperAlpha[i] = c
    THEN LowerAlpha[CHOOSE i \in 1..Len(UpperAlpha) : UpperAlpha[i] = c]
    ELSE c

\* a lower() that leaves every character as it is
LowerIdentity(s) == s

\* str.lower()
Lower(s) == [i \in 1..Len(s) |-> LowerChar(s[i])]

\* ------------------------------------------------------------------------
\* emissions.py: the factor table
\* ------------------------------------------------------------------------
car == << "c", "a", "r" >>
car_gas == << "c", "a", "r", "_", "g", "a", "s" >>
car_hybrid == << "c", "a", "r", "_", "h", "y", "b", "r", "i", "d" >>
rideshare == << "r", "i", "d", "e", "s", "h", "a", "r", "e" >>
bus == << "b", "u", "s" >>
train == << "t", "r", "a", "i", "n" >>
subway == << "s", "u", "b", "w", "a", "y" >>
bike == << "b", "i", "k", "e" >>
walk == << "w", "a", "l", "k" >>

\* _FACTORS as the dict keeps it: keys in insertion order, factor in
\* thousandths of kg CO2e per km.
_FACTORS ==
    << [mode |-> car, factor |-> 192],
       [mode |-> car_gas, factor |-> 192],
       [mode |-> car_hybrid, factor |-> 120],
       [mode |-> rideshare, factor |-> 212],
       [mode |-> bus, factor |-> 82],
       [mode |-> train, factor |-> 41],
       [mode |-> subway, factor |-> 45],
       [mode |-> bike, factor |-> 0],
       [mode |-> walk, factor |-> 0] >>

\* _FACTORS.keys()
FactorKeys == [i \in 1..Len(_FACTORS) |-> _FACTORS[i].mode]

\* m in _FACTORS
InFactors(m) == \E i \in 1..Len(_FACTORS) : _FACTORS[i].mode = m

\* _FACTORS[m]
FactorAt(m) == _FACTORS[CHOOSE i \in 1..Len(_FACTORS) : _FACTORS[i].mode = m].factor

_PER_VEHICLE == {car, car_gas, car_hybrid, rideshare}

\* _factor_for: m = (mode or "").lower(); _FACTORS.get(m, _FACTORS["car"])
_factor_for(m) ==
    LET l == Lower(m)
    IN  IF InFactors(l) THEN FactorAt(l) ELSE FactorAt(car)

\* ------------------------------------------------------------------------
\* round(): n/d rounded to the nearest integer (d > 0); an exact integer
\* stays, an exact half goes the way of tie
\* ------------------------------------------------------------------------
RoundDiv(n, d) ==
    LET q == n \div d
        r == n % d
    IN  IF 2 * r < d THEN q
        ELSE IF 2 * r > d THEN q + 1
        ELSE IF tie = "up" THEN q + 1 ELSE q

\* ------------------------------------------------------------------------
\* emissions.py: estimate_emissions, statement by statement
\* ------------------------------------------------------------------------
\* distance_km <= 0 : "TypeError" when the operands cannot be ordered,
\* otherwise the truth value (every comparison with NaN is false).
DistanceNotPositive(distance_km) ==
    CASE distance_km.t \in {"str", "none"} -> "TypeError"
      [] distance_km.t = "nan" -> "False"
      [] OTHER -> IF Milli(distance_km) <= 0 THEN "True" ELSE "False"

\* (mode or "car").lower() is defined for None, for a false value and for a
\* string; a true value of another type has no lower().
ModeHasLower(mode) == (~Truthy(mode)) \/ mode.t = "str"

\* normalized_mode = (mode or "car").lower(); unknown -> "car"
NormalizeMode(mode) ==
    LET m == IF Truthy(mode) THEN Lower(mode.s) ELSE car
    IN  IF InFactors(m) THEN m ELSE car

\* the clamp with the test pax < 0 in place of pax < 1
ClampPaxBelowZero(passengers) ==
    LET pax == IF passengers.t = "int" THEN passengers.n ELSE 1
    IN  IF pax < 0 THEN 1 ELSE pax

\* pax = int(passengers) if isinstance(passengers, int) else 1; pax < 1 -> 1
ClampPax(passengers) ==
    LET pax == IF passengers.t = "int" THEN passengers.n ELSE 1
    IN  IF pax < 1 THEN 1 ELSE pax

\* the divisor without the _PER_VEHICLE test
DivisorAlwaysPax(normalized_mode, pax) == pax

\* divisor = pax if normalized_mode in _PER_VEHICLE else 1
Divisor(normalized_mode, pax) ==
    IF normalized_mode \in _PER_VEHICLE THEN pax ELSE 1

\* kg with * divisor in place of / divisor
KgTimesDivisor(distance_km, f, divisor) ==
    IF distance_km.t = "nan" THEN NaN
    ELSE Num(RoundDiv(Milli(distance_km) * f * divisor, 100))

\* kg with f / distance_km in place of distance_km * f
KgFactorOverDistance(distance_km, f, divisor) ==
    IF distance_km.t = "nan" THEN NaN
    ELSE Num(RoundDiv(10000 * f, Milli(distance_km) * divisor))

\* kg = round((distance_km * f) / divisor, 4), in ten-thousandths of a kg:
\* (milli-km * milli-kg/km) / divisor is in millionths, /100 brings it to 1e-4.
Kg(distance_km, f, divisor) ==
    IF distance_km.t = "nan" THEN NaN
    ELSE Num(RoundDiv(Milli(distance_km) * f, 100 * divisor))

\* round(distance_km, 2), in thousandths of a km
ReportedDistance(distance_km) ==
    IF distance_km.t = "nan" THEN NaN
    ELSE Num(10 * RoundDiv(Milli(distance_km), 10))

\* "passengers": pax, the clamped count whatever the mode
ReportedPassengersRaw(divisor, pax) == pax

\* "passengers": divisor
ReportedPassengers(divisor, pax) == divisor

Raised(exc) ==
    [status |-> exc, mode |-> << >>, distance_km |-> Num(0), passengers |-> 0,
     factor_kg_per_km |-> 0, kgCO2e |-> Num(0), estimated_co2_kg |-> Num(0),
     source |-> ""]

\* the dict estimate_emissions returns
Estimate(normalized_mode, distance_km, f, pax, divisor, kg) ==
    [status |-> "ok",
     mode |-> normalized_mode,
     distance_km |-> ReportedDistance(distance_km),
     passengers |-> ReportedPassengers(divisor, pax),
     factor_kg_per_km |-> f,
     kgCO2e |-> kg,
     estimated_co2_kg |-> kg,
     source |-> "emissions.py"]

\* the statements after the factor lookup; a zero divisor would raise
Allocate(normalized_mode, distance_km, f, pax, divisor) ==
    IF divisor = 0 THEN Raised("ZeroDivisionError")
    ELSE Estimate(normalized_mode, distance_km, f, pax, divisor,
                  Kg(distance_km, f, divisor))

\* the statements after the mode is normalized
EstimateFor(normalized_mode, distance_km, pax) ==
    Allocate(normalized_mode, distance_km, _factor_for(normalized_mode), pax,
             Divisor(normalized_mode, pax))

\* the statements after the distance comparison cmp
EstimateAfter(cmp, mode, distance_km, passengers) ==
    IF cmp = "TypeError" THEN Raised("TypeError")
    ELSE IF cmp = "True" THEN Raised("ValueError")
    ELSE IF ~ModeHasLower(mode) THEN Raised("AttributeError")
    ELSE EstimateFor(NormalizeMode(mode), distance_km, ClampPax(passengers))

estimate_emissions(mode, distance_km, passengers) ==
    EstimateAfter(DistanceNotPositive(distance_km), mode, distance_km, passengers)

\* ------------------------------------------------------------------------
\* emissions.py: compare_modes
\* ------------------------------------------------------------------------
\* Python's < on floats: false when either side is NaN
FloatLess(a, b) == (~a.nan) /\ (~b.nan) /\ a.v < b.v

\* list.sort(key=lambda x: x["kgCO2e"]) compares with < only and is stable:
\* an element goes after every element that is not greater than it.
RECURSIVE InsertByKg(_, _)
InsertByKg(sorted, e) ==
    IF sorted = << >> THEN << e >>
    ELSE IF FloatLess(e.kgCO2e, sorted[Len(sorted)].kgCO2e)
         THEN Append(InsertByKg(SubSeq(sorted, 1, Len(sorted) - 1), e),
                     sorted[Len(sorted)])
         ELSE Append(sorted, e)

RECURSIVE SortPrefix(_, _)
SortPrefix(list, k) ==
    IF k = 0 THEN << >> ELSE InsertByKg(SortPrefix(list, k - 1), list[k])

\* the same insertion but before the elements of equal key: not stable
RECURSIVE InsertBeforeEqual(_, _)
InsertBeforeEqual(sorted, e) ==
    IF sorted = << >> THEN << e >>
    ELSE IF ~FloatLess(sorted[Len(sorted)].kgCO2e, e.kgCO2e)
         THEN Append(InsertBeforeEqual(SubSeq(sorted, 1, Len(sorted) - 1), e),
                     sorted[Len(sorted)])
         ELSE Append(sorted, e)

RECURSIVE SortPrefixUnstable(_, _)
SortPrefixUnstable(list, k) ==
    IF k = 0 THEN << >>
    ELSE InsertBeforeEqual(SortPrefixUnstable(list, k - 1), list[k])

SortByKgUnstable(list) == SortPrefixUnstable(list, Len(list))

\* the sort with reverse=True
SortByKgDescending(list) ==
    LET a == SortPrefix(list, Len(list))
    IN  [i \in 1..Len(a) |-> a[Len(a) + 1 - i]]

\* results.sort(key=lambda x: x["kgCO2e"])
SortByKg(list) == SortPrefix(list, Len(list))

\* what compare_modes returns for the estimates of its loop: the first
\* estimate that raises ends the call, otherwise the sorted list
Compared(results) ==
    IF \E i \in 1..Len(results) : results[i].status # "ok"
    THEN [status |-> results[CHOOSE i \in 1..Len(results) :
                               /\ results[i].status # "ok"
                               /\ \A j \in 1..(i - 1) : results[j].status = "ok"].status,
          results |-> << >>]
    ELSE [status |-> "ok", results |-> SortByKg(results)]

compare_modes(distance_km, passengers) ==
    Compared([i \in 1..Len(_FACTORS) |->
                estimate_emissions(PyStr(FactorKeys[i]), distance_km, passengers)])

\* ------------------------------------------------------------------------
\* The inputs the calls are checked on
\* ------------------------------------------------------------------------
UpperChar(c) ==
    IF \E i \in 1..Len(LowerAlpha) : LowerAlpha[i] = c
    THEN UpperAlpha[CHOOSE i \in 1..Len(LowerAlpha) : LowerAlpha[i] = c]
    ELSE c
Upper(s) == [i \in 1..Len(s) |-> UpperChar(s[i])]
Title(s) == [i \in 1..Len(s) |-> IF i = 1 THEN UpperChar(s[i]) ELSE s[i]]

TableModes == {FactorKeys[i] : i \in 1..Len(FactorKeys)}
spaceship == << "s", "p", "a", "c", "e", "s", "h", "i", "p" >>
UnknownModes == {spaceship, Upper(spaceship), Append(car, " "), << "c", "a" >>}

ModeInputs ==
    {PyNone, PyStr(<< >>)}
    \cup {PyStr(m) : m \in TableModes}
    \cup {PyStr(Upper(m)) : m \in TableModes}
    \cup {PyStr(Title(m)) : m \in TableModes}
    \cup {PyStr(m) : m \in UnknownModes}

DistanceInputs ==
    {PyNaN, PyInt(0), PyInt(-5), PyInt(10), PyFloat(0), PyFloat(-5000),
     PyFloat(-1), PyFloat(1005), PyFloat(2675), PyFloat(12345)}
    \cup {PyFloat(d) : d \in 1..MaxMilli}
    \cup {PyFloat(1000 * k) : k \in 1..MaxKm}

PassengerInputs ==
    {PyInt(p) : p \in (-1)..MaxPassengers}
    \cup {PyFloat(2500), PyStr(<< "3" >>), PyNone}

\* ------------------------------------------------------------------------
\* app.py: helpers of the auto-compare handler
\* ------------------------------------------------------------------------
Digits == << "0", "1", "2", "3", "4", "5", "6", "7", "8", "9" >>
IsDigit(c) == \E i \in 1..Len(Digits) : Digits[i] = c
DigitValue(c) == (CHOOSE i \in 1..Len(Digits) : Digits[i] = c) - 1

RECURSIVE ParseDigits(_)
ParseDigits(s) ==
    IF s = << >> THEN 0
    ELSE 10 * ParseDigits(SubSeq(s, 1, Len(s) - 1)) + DigitValue(s[Len(s)])

\* int(x): [exc, n].  A float truncates toward zero, a string must be digits.
IntOf(x) ==
    CASE x.t = "int" -> [exc |-> "", n |-> x.n]
      [] x.t = "float" -> [exc |-> "",
                           n |-> IF x.n >= 0 THEN x.n \div 1000
                                 ELSE -((-x.n) \div 1000)]
      [] x.t = "nan" -> [exc |-> "ValueError", n |-> 0]
      [] x.t = "none" -> [exc |-> "TypeError", n |-> 0]
      [] OTHER -> IF x.s # << >> /\ \A i \in 1..Len(x.s) : IsDigit(x.s[i])
                  THEN [exc |-> "", n |-> ParseDigits(x.s)]
                  ELSE [exc |-> "ValueError", n |-> 0]

\* require_key: the status it aborts with, 0 when it returns
require_key(API_KEY, x_api_key) ==
    IF API_KEY = "" THEN 500
    ELSE IF x_api_key # API_KEY THEN 401
    ELSE 0

NoRoute == [ok |-> FALSE, dist_m |-> 0, sec |-> 0]

\* _directions: without GOOGLE_API_KEY no request is made; otherwise the
\* provider's answer (answer.ok false: status not OK, or the request raised)
\* gives distance_km = round(dist_m / 1000, 3) in thousandths of a km and
\* duration_min = round(sec / 60, 1) in tenths of a minute.
_directions(GOOGLE_API_KEY, answer) ==
    IF GOOGLE_API_KEY = "" \/ ~answer.ok
    THEN [ok |-> FALSE, distance_km |-> 0, duration_min |-> 0]
    ELSE [ok |-> TRUE, distance_km |-> answer.dist_m,
          duration_min |-> RoundDiv(answer.sec, 6)]

\* SPEED_KMH in tenths of km/h, OVERHEAD in minutes
SPEED_KMH(m) ==
    CASE m \in {car, car_hybrid} -> 350
      [] m = bus -> 180
      [] m = train -> 450
      [] m = subway -> 300
      [] m = bike -> 155
      [] m = walk -> 50
      [] OTHER -> 300
OVERHEAD(m) ==
    CASE m \in {car, car_hybrid} -> 5
      [] m \in {bus, train, subway} -> 6
      [] m = bike -> 2
      [] OTHER -> 0

\* _offline_time_min: round(oh + (distance_km / sp) * 60.0, 1), in tenths of
\* a minute, for a distance in thousandths of a km
_offline_time_min(d, m) ==
    RoundDiv(10 * OVERHEAD(m) * SPEED_KMH(m) + 6 * d, SPEED_KMH(m))

plan ==
    << [mode |-> car, gmode |-> "driving", tmode |-> "None"],
       [mode |-> car_hybrid, gmode |-> "driving", tmode |-> "None"],
       [mode |-> bus, gmode |-> "transit", tmode |-> "bus"],
       [mode |-> train, gmode |-> "transit", tmode |-> "rail"],
       [mode |-> subway, gmode |-> "transit", tmode |-> "subway"],
       [mode |-> bike, gmode |-> "bicycling", tmode |-> "None"],
       [mode |-> walk, gmode |-> "walking", tmode |-> "None"] >>

\* REALISM_LIMITS in thousandths of a km, 0 for no limit
REALISM_LIMITS(m) ==
    CASE m = walk -> 3200
      [] m = bike -> 4800
      [] OTHER -> 0

\* The row and the call record of one plan item whose estimate is e
ItemResult(m, d, duration_min, pax, e) ==
    [call |-> [mode |-> PyFloat(d), distance_km |-> PyStr(m),
               passengers |-> pax, status |-> e.status],
     row |-> [mode |-> e.mode, factor_kg_per_km |-> e.factor_kg_per_km,
              kgCO2e |-> e.kgCO2e, passengers |-> e.passengers,
              distance_km |-> d, time_min |-> duration_min,
              source |-> e.source],
     distance |-> d,
     exc |-> IF e.status = "ok" THEN "" ELSE e.status]

\* est = estimate_emissions(distance_km, m, passengers=passengers): the
\* distance is the first positional argument and the mode the second
ItemEstimate(m, d, duration_min, pax) ==
    ItemResult(m, d, duration_min, pax,
               estimate_emissions(PyFloat(d), PyStr(m), PyInt(pax)))

\* The body of "for item in plan" for the mode m and the answer resp of
\* _directions: the distance is the route's, or 1.0 km when there is none
PlanItem(m, resp, pax) ==
    IF resp.ok /\ resp.distance_km # 0
    THEN ItemEstimate(m, resp.distance_km, resp.duration_min, pax)
    ELSE ItemEstimate(m, 1000, _offline_time_min(1000, m), pax)

\* acc after one more item: its row (unless the estimate raised), its call,
\* base_distance_for_log (0 for None) and the exception that ends the loop
Accumulate(acc, item) ==
    [rows |-> IF item.exc = "" THEN Append(acc.rows, item.row) ELSE acc.rows,
     calls |-> Append(acc.calls, item.call),
     base |-> IF acc.base = 0 /\ item.distance # 0 THEN item.distance
              ELSE acc.base,
     exc |-> item.exc]

\* "for item in plan" from item i on
RECURSIVE PlanLoop(_, _, _, _, _)
PlanLoop(i, GOOGLE_API_KEY, answers, pax, acc) ==
    IF i > Len(plan) \/ acc.exc # "" THEN acc
    ELSE PlanLoop(i + 1, GOOGLE_API_KEY, answers, pax,
                  Accumulate(acc, PlanItem(plan[i].mode,
                                           _directions(GOOGLE_API_KEY, answers[i]),
                                           pax)))

NoResponse == [code |-> 0, distance_km |-> 0, results |-> << >>, removed |-> << >>]

\* a row the realism filter drops
Excluded(r, total_dist) ==
    REALISM_LIMITS(r.mode) # 0 /\ total_dist > REALISM_LIMITS(r.mode)

\* the JSON body: the rows kept and the modes removed
Body(rows, total_dist) ==
    [code |-> 200, distance_km |-> total_dist,
     results |-> SelectSeq(rows, LAMBDA r : ~Excluded(r, total_dist)),
     removed |-> [k \in 1..Len(SelectSeq(rows, LAMBDA r : Excluded(r, total_dist)))
                    |-> SelectSeq(rows, LAMBDA r : Excluded(r, total_dist))[k].mode]]

Answered(body, calls, mongo_ok) ==
    [response |-> body, calls |-> calls,
     inserted |-> IF mongo_ok THEN << body >> ELSE << >>]

Aborted(code, calls) ==
    [response |-> [NoResponse EXCEPT !.code = code], calls |-> calls,
     inserted |-> << >>]

\* the handler after its loop: an exception is a 500, otherwise the filter,
\* the insert when Mongo answers, and the 200
Respond(cfg, looped) ==
    IF looped.exc # "" THEN Aborted(500, looped.calls)
    ELSE Answered(Body(looped.rows, looped.base), looped.calls, cfg.mongo_ok)

\* the handler once passengers is converted
Compare(cfg, req, pax, answers) ==
    IF pax.exc # "" THEN Aborted(500, << >>)
    ELSE IF ~Truthy(req.origin) \/ ~Truthy(req.destination)
    THEN Aborted(400, << >>)
    ELSE Respond(cfg, PlanLoop(1, cfg.GOOGLE_API_KEY, answers, pax.n,
                               [rows |-> << >>, calls |-> << >>, base |-> 0,
                                exc |-> ""]))

\* auto_compare: the response, the estimate calls made and the document it
\* inserts (<< >> for none)
auto_compare(cfg, req, answers) ==
    IF require_key(cfg.API_KEY, req.x_api_key) # 0
    THEN Aborted(require_key(cfg.API_KEY, req.x_api_key), << >>)
    ELSE Compare(cfg, req,
                 IntOf(IF req.passengers.t = "absent" THEN PyInt(1)
                       ELSE req.passengers),
                 answers)

\* ------------------------------------------------------------------------
\* The requests the handler is checked on
\* ------------------------------------------------------------------------
MaxRouteMetres == 2500
RouteAnswers ==
    {NoRoute, [ok |-> TRUE, dist_m |-> 0, sec |-> 0],
     [ok |-> TRUE, dist_m |-> MaxRouteMetres, sec |-> 600]}
Absent == [t |-> "absent", n |-> 0, s |-> << >>]
Configs ==
    [API_KEY : {"", "secret"}, GOOGLE_API_KEY : {"", "gkey"}, mongo_ok : BOOLEAN]
Requests ==
    [x_api_key : {"secret", "guess"},
     origin : {PyNone, PyStr(<< "A" >>)},
     destination : {PyStr(<< >>), PyStr(<< "B" >>)},
     passengers : {Absent, PyInt(2), PyStr(<< "2" >>), PyStr(<< "x" >>), PyNone}]

\* ------------------------------------------------------------------------
\* State: one call of the library with its arguments and what it returned,
\* one more call with one argument changed, and one request to the handler
\* with its configuration, its response, the estimate calls it made and the
\* documents it inserted
\* ------------------------------------------------------------------------
VARIABLES mode, distance_km, passengers, est, ranking, again,
          config, request, response, calls, commutes

vars == << mode, distance_km, passengers, est, ranking, again,
           config, request, response, calls, commutes, tie >>
libVars == << mode, distance_km, passengers, est, ranking, again >>
appVars == << config, request, response, calls, commutes >>

\* ------------------------------------------------------------------------
\* Initial states and calls
\* ------------------------------------------------------------------------
NoEstimate == Raised("none")
NoRanking == [status |-> "none", results |-> << >>]
NoAgain == [distance_km |-> PyNone, passengers |-> PyNone, est |-> NoEstimate]

LibIdle ==
    /\ est = NoEstimate
    /\ ranking = NoRanking
    /\ again = NoAgain
AppIdle ==
    /\ response = NoResponse
    /\ calls = << >>
    /\ commutes = << >>

Init ==
    /\ mode \in ModeInputs
    /\ distance_km \in DistanceInputs
    /\ passengers \in PassengerInputs
    /\ LibIdle
    /\ tie \in {"down", "up"}
    /\ config = [API_KEY |-> "secret", GOOGLE_API_KEY |-> "gkey", mongo_ok |-> TRUE]
    /\ request = [x_api_key |-> "secret", origin |-> PyNone,
                  destination |-> PyNone, passengers |-> Absent]
    /\ AppIdle

\* estimate_emissions(mode, distance_km, passengers=passengers)
EstimateCall ==
    /\ est = NoEstimate
    /\ ranking = NoRanking
    /\ est' = estimate_emissions(mode, distance_km, passengers)
    /\ UNCHANGED << mode, distance_km, passengers, ranking, again >>
    /\ UNCHANGED << appVars, tie >>

\* compare_modes(distance_km, passengers)
CompareCall ==
    /\ est = NoEstimate
    /\ ranking = NoRanking
    /\ ranking' = compare_modes(distance_km, passengers)
    /\ UNCHANGED << mode, distance_km, passengers, est, again >>
    /\ UNCHANGED << appVars, tie >>

Next == EstimateCall \/ CompareCall

Spec == Init /\ [][Next]_vars

\* A second call of estimate_emissions with the same mode and passengers and
\* another distance
EstimateOtherDistance ==
    /\ est # NoEstimate
    /\ again = NoAgain
    /\ \E d \in DistanceInputs :
         again' = [distance_km |-> d, passengers |-> passengers,
                   est |-> estimate_emissions(mode, d, passengers)]
    /\ UNCHANGED << mode, distance_km, passengers, est, ranking >>
    /\ UNCHANGED << appVars, tie >>

\* A second call of estimate_emissions with the same mode and distance and
\* another passenger count
EstimateOtherPassengers ==
    /\ est # NoEstimate
    /\ again = NoAgain
    /\ \E p \in PassengerInputs :
         again' = [distance_km |-> distance_km, passengers |-> p,
                   est |-> estimate_emissions(mode, distance_km, p)]
    /\ UNCHANGED << mode, distance_km, passengers, est, ranking >>
    /\ UNCHANGED << appVars, tie >>

NextPair == EstimateCall \/ EstimateOtherDistance \/ EstimateOtherPassengers

SpecPair == Init /\ [][NextPair]_vars

\* POST /api/v1/commutes/auto-compare
InitApp ==
    /\ mode = PyNone
    /\ distance_km = PyNone
    /\ passengers = PyNone
    /\ LibIdle
    /\ tie \in {"down", "up"}
    /\ config \in Configs
    /\ request \in Requests
    /\ AppIdle

AutoCompare ==
    /\ response = NoResponse
    /\ \E answers \in [1..Len(plan) -> RouteAnswers] :
         \E r \in {auto_compare(config, request, answers)} :
            /\ response' = r.response
            /\ calls' = r.calls
            /\ commutes' = r.inserted
    /\ UNCHANGED << config, request >>
    /\ UNCHANGED << libVars, tie >>

NextApp == AutoCompare

SpecApp == InitApp /\ [][NextApp]_vars

\* ------------------------------------------------------------------------
\* What the specification says of the estimator, written from its text
\* ------------------------------------------------------------------------
SpecModes == {car, car_gas, car_hybrid, rideshare, bus, train, subway, bike, walk}
SpecPerVehicle == {car, car_gas, car_hybrid, rideshare}
SpecFactor(m) ==
    CASE m \in {car, car_gas} -> 192
      [] m = car_hybrid -> 120
      [] m = rideshare -> 212
      [] m = bus -> 82
      [] m = train -> 41
      [] m = subway -> 45
      [] OTHER -> 0
\* position of a mode in the table of the specification
SpecTableIndex(m) ==
    CASE m = car -> 1 [] m = car_gas -> 2 [] m = car_hybrid -> 3
      [] m = rideshare -> 4 [] m = bus -> 5 [] m = train -> 6
      [] m = subway -> 7 [] m = bike -> 8 [] m = walk -> 9 [] OTHER -> 0
\* max(1, p) for the per-vehicle modes, 1 for the others
EffectivePassengers(m, p) ==
    IF m \in SpecPerVehicle THEN (IF p > 1 THEN p ELSE 1) ELSE 1
\* two characters that are the same letter in either case
SameLetter(a, b) ==
    \/ a = b
    \/ \E i \in 1..Len(LowerAlpha) : {a, b} = {LowerAlpha[i], UpperAlpha[i]}
CaseInsensitiveEq(s, m) ==
    /\ Len(s) = Len(m)
    /\ \A i \in 1..Len(s) : SameLetter(s[i], m[i])
\* the mode a string or None stands for: the table mode it spells in any
\* letter case, car when there is none
SpecNormalized(x) ==
    IF \E m \in SpecModes : CaseInsensitiveEq(x.s, m)
    THEN CHOOSE m \in SpecModes : CaseInsensitiveEq(x.s, m)
    ELSE car
\* round(d * factor / effectivePassengers, 4) in ten-thousandths of a kg
SpecKg(d, m, p) == RoundDiv(d * SpecFactor(m), 100 * EffectivePassengers(m, p))

PositiveDistance(d) == IsNumber(d) /\ Milli(d) > 0
ModeStringOrNull(x) == x.t \in {"str", "none"}
Estimated == est.status # "none"
Ranked == ranking.status # "none"

\* C1: for a distance > 0, a mode string and an integer passenger count the
\* estimate's kgCO2e is round(distance * factor / effectivePassengers, 4),
\* with the factor of the normalized mode; estimate(10, car, 1) = 1.92,
\* estimate(10, bus, 4) = 0.82 and estimate(10, car, 4) = 0.48.
C1_KgIsRoundedQuotient ==
    (Estimated /\ PositiveDistance(distance_km) /\ ModeStringOrNull(mode)
       /\ passengers.t = "int")
    => /\ est.status = "ok"
       /\ est.kgCO2e = Num(SpecKg(Milli(distance_km), SpecNormalized(mode),
                                  passengers.n))
       /\ (Milli(distance_km) = 10000 /\ mode = PyStr(car) /\ passengers.n = 1)
            => est.kgCO2e = Num(19200)
       /\ (Milli(distance_km) = 10000 /\ mode = PyStr(bus) /\ passengers.n = 4)
            => est.kgCO2e = Num(8200)
       /\ (Milli(distance_km) = 10000 /\ mode = PyStr(car) /\ passengers.n = 4)
            => est.kgCO2e = Num(4800)

C1_Witness ==
    /\ mode = PyStr(car)
    /\ distance_km = PyFloat(10000)
    /\ passengers = PyInt(4)
    /\ est.status = "ok"
    /\ est.kgCO2e = Num(4800)

\* C2: estimate fails with the invalid-argument error (ValueError) for every
\* distance that is zero, negative or NaN and returns no estimate then.
C2_NonPositiveOrNaNRejected ==
    (Estimated /\ (distance_km.t = "nan"
                    \/ (IsNumber(distance_km) /\ Milli(distance_km) <= 0)))
    => est.status = "ValueError"

\* C3 as stated: every estimate returned for a numeric distance satisfies
\* kgCO2e == round(distance_km * factor_kg_per_km / passengers, 4) on the
\* fields it reports.
C3_IdentityOnReportedFields ==
    (est.status = "ok" /\ IsNumber(distance_km))
    => /\ ~est.kgCO2e.nan
       /\ ~est.distance_km.nan
       /\ est.kgCO2e.v = RoundDiv(est.distance_km.v * est.factor_kg_per_km,
                                  100 * est.passengers)

\* C3 amended: an estimate returned for a distance with at most two decimal
\* places reports that distance, reports the effective passenger count, and
\* satisfies kgCO2e == round(distance_km * factor_kg_per_km / passengers, 4)
\* on the fields it reports.
C3_IdentityOnTwoDecimalDistance ==
    (est.status = "ok" /\ IsNumber(distance_km) /\ Milli(distance_km) % 10 = 0)
    => /\ est.distance_km = Num(Milli(distance_km))
       /\ passengers.t = "int"
            => est.passengers = EffectivePassengers(est.mode, passengers.n)
       /\ est.passengers >= 1
       /\ est.kgCO2e = Num(RoundDiv(est.distance_km.v * est.factor_kg_per_km,
                                    100 * est.passengers))

C3_Witness ==
    /\ mode = PyStr(car_hybrid)
    /\ distance_km = PyFloat(2000)
    /\ passengers = PyInt(3)
    /\ est.status = "ok"
    /\ est.distance_km = Num(2000)
    /\ est.passengers = 3
    /\ est.factor_kg_per_km = 120
    /\ est.kgCO2e = Num(800)

\* C4: for a distance > 0, a mode that is null, empty or spells no table mode
\* is no error and yields exactly the estimate of car, with mode "car"; a
\* mode that differs from a table mode only in letter case yields exactly
\* the estimate of that table mode.
C4_UnknownIsCarAndCaseIgnored ==
    (Estimated /\ PositiveDistance(distance_km) /\ ModeStringOrNull(mode))
    => /\ est.status = "ok"
       /\ est.mode = SpecNormalized(mode)
       /\ est = estimate_emissions(PyStr(SpecNormalized(mode)), distance_km,
                                   passengers)
       /\ est.factor_kg_per_km = SpecFactor(SpecNormalized(mode))

C4_Witness ==
    /\ mode = PyStr(Upper(spaceship))
    /\ distance_km = PyInt(10)
    /\ passengers = PyInt(1)
    /\ est.status = "ok"
    /\ est.mode = car
    /\ est.kgCO2e = Num(19200)

\* C5: for a distance > 0, any mode string and any passengers value
\* (0, negative and non-integer values included) the call returns, the
\* returned mode is one of the nine modes, passengers >= 1 and kgCO2e >= 0.
C5_ResultGuarantee ==
    (Estimated /\ PositiveDistance(distance_km) /\ ModeStringOrNull(mode))
    => /\ est.status = "ok"
       /\ est.mode \in SpecModes
       /\ est.passengers >= 1
       /\ ~est.kgCO2e.nan
       /\ est.kgCO2e.v >= 0

C5_Witness ==
    /\ mode = PyStr(car)
    /\ distance_km = PyInt(10)
    /\ passengers = PyInt(0)
    /\ est.status = "ok"
    /\ est.passengers = 1
    /\ est.kgCO2e = Num(19200)

\* the modes of a ranking, in its order
RankedModes == [i \in 1..Len(ranking.results) |-> ranking.results[i].mode]
RankedKg(i) == ranking.results[i].kgCO2e.v

\* C6: for a distance > 0 and any passenger count compare_modes returns
\* exactly one estimate per mode of the factor table, kgCO2e never decreases
\* along the sequence, and entries of equal kgCO2e are in table order.
C6_OnePerModeSortedStable ==
    (Ranked /\ PositiveDistance(distance_km))
    => /\ ranking.status = "ok"
       /\ Len(ranking.results) = Cardinality(SpecModes)
       /\ \A m \in SpecModes :
            Cardinality({i \in 1..Len(ranking.results) : RankedModes[i] = m}) = 1
       /\ \A i \in 1..Len(ranking.results) :
            /\ ranking.results[i].status = "ok"
            /\ ~ranking.results[i].kgCO2e.nan
            /\ passengers.t = "int"
                 => RankedKg(i) = SpecKg(Milli(distance_km), RankedModes[i],
                                         passengers.n)
       /\ \A i, j \in 1..Len(ranking.results) :
            i < j => /\ RankedKg(i) <= RankedKg(j)
                     /\ RankedKg(i) = RankedKg(j)
                          => SpecTableIndex(RankedModes[i])
                               < SpecTableIndex(RankedModes[j])

C6_Witness ==
    /\ distance_km = PyInt(10)
    /\ passengers = PyInt(1)
    /\ ranking.status = "ok"
    /\ RankedModes = << bike, walk, train, subway, bus, car_hybrid, car,
                        car_gas, rideshare >>
    /\ RankedKg(7) = 19200
    /\ RankedKg(8) = 19200

\* C7 as stated: for every distance > 0 and passenger count bike and walk
\* (kgCO2e = 0) occupy the first two positions of the ranking, in table order.
C7_BikeWalkFirstTwo ==
    (Ranked /\ PositiveDistance(distance_km))
    => /\ ranking.status = "ok"
       /\ RankedModes[1] = bike /\ RankedKg(1) = 0
       /\ RankedModes[2] = walk /\ RankedKg(2) = 0

\* C7 amended: for every distance > 0 and passenger count bike and walk have
\* kgCO2e = 0 and stand next to each other, bike first, after nothing but
\* entries whose kgCO2e is 0 as well (modes whose estimate rounds to 0.0000
\* and that precede bike in the table); they occupy the first two positions
\* exactly when the estimate of every other mode is above 0.
C7_BikeWalkFirstAmongZero ==
    (Ranked /\ PositiveDistance(distance_km))
    => /\ ranking.status = "ok"
       /\ \E k \in 1..(Len(ranking.results) - 1) :
            /\ RankedModes[k] = bike /\ RankedKg(k) = 0
            /\ RankedModes[k + 1] = walk /\ RankedKg(k + 1) = 0
            /\ \A j \in 1..(k - 1) : RankedKg(j) = 0
            /\ \A j \in (k + 2)..Len(ranking.results) : RankedKg(j) > 0
            /\ (k = 1) <=> (\A i \in 1..Len(ranking.results) :
                              RankedModes[i] \notin {bike, walk} => RankedKg(i) > 0)

C7_Witness ==
    /\ distance_km = PyFloat(1)
    /\ passengers = PyInt(1)
    /\ ranking.status = "ok"
    /\ RankedModes[1] = train /\ RankedKg(1) = 0
    /\ RankedModes[2] = subway /\ RankedKg(2) = 0
    /\ RankedModes[3] = bike
    /\ RankedModes[4] = walk
    /\ RankedKg(5) > 0

EstimatedAgain == est.status = "ok" /\ again.est.status = "ok"

\* C8: for a per-vehicle mode and a fixed distance > 0 kgCO2e is
\* non-increasing in the passenger count, counts below 1 counting as 1.
C8_NonIncreasingInPassengers ==
    (EstimatedAgain /\ PositiveDistance(distance_km)
       /\ again.distance_km = distance_km
       /\ ModeStringOrNull(mode) /\ SpecNormalized(mode) \in SpecPerVehicle
       /\ passengers.t = "int" /\ again.passengers.t = "int"
       /\ passengers.n <= again.passengers.n)
    => /\ ~est.kgCO2e.nan /\ ~again.est.kgCO2e.nan
       /\ again.est.kgCO2e.v <= est.kgCO2e.v
       /\ again.passengers.n < 1 => again.est.kgCO2e = est.kgCO2e

C8_Witness ==
    /\ mode = PyStr(rideshare)
    /\ distance_km = PyInt(10)
    /\ passengers = PyInt(0)
    /\ again.distance_km = distance_km
    /\ again.passengers = PyInt(4)
    /\ est.kgCO2e = Num(21200)
    /\ again.est.kgCO2e = Num(5300)

\* C9: for a fixed mode and passenger count and distances 0 < d1 <= d2 the
\* kgCO2e of d1 is at most the kgCO2e of d2, rounding included.
C9_NonDecreasingInDistance ==
    (EstimatedAgain /\ PositiveDistance(distance_km)
       /\ PositiveDistance(again.distance_km)
       /\ again.passengers = passengers
       /\ Milli(distance_km) <= Milli(again.distance_km))
    => /\ ~est.kgCO2e.nan /\ ~again.est.kgCO2e.nan
       /\ est.kgCO2e.v <= again.est.kgCO2e.v

C9_Witness ==
    /\ mode = PyStr(train)
    /\ passengers = PyInt(1)
    /\ again.passengers = passengers
    /\ distance_km = PyFloat(1)
    /\ again.distance_km = PyFloat(2)
    /\ est.kgCO2e = Num(0)
    /\ again.est.kgCO2e = Num(1)

\* C10: for a request that passes the key check and carries an origin and a
\* destination (and a passenger count that is absent or an integer) the
\* handler calls estimate_emissions once per planned mode, with a positive
\* number as the distance argument and the planned mode as the mode
\* argument, and no call ends in an error.
C10_EveryPlannedModeEstimated ==
    (/\ response.code # 0
     /\ require_key(config.API_KEY, request.x_api_key) = 0
     /\ Truthy(request.origin) /\ Truthy(request.destination)
     /\ request.passengers.t \in {"absent", "int"})
    => /\ Len(calls) = Len(plan)
       /\ \A i \in 1..Len(calls) :
            /\ PositiveDistance(calls[i].distance_km)
            /\ calls[i].mode = PyStr(plan[i].mode)
            /\ calls[i].status = "ok"
       /\ response.code = 200
====
